---- MODULE Spec2Model ----
(***************************************************************************)
(* H5P answer extractor: h5p_answer_extractor.py (class                    *)
(* H5PAnswerExtractor) and extract_answers.py (extract_answers).           *)
(*                                                                         *)
(* A Python str is a sequence of one-character strings, so that the        *)
(* regular expressions, substring tests and path functions of the code     *)
(* are computed character by character.                                    *)
(***************************************************************************)
EXTENDS Integers, Sequences, FiniteSets, TLC

VARIABLES
    pc,               \* position of the operation under way
    text,             \* _clean_html_text: its argument
    clean_text,       \* _clean_html_text: its return value
    library,          \* action.library of the interaction at hand
    params,           \* action.params, the argument of an _extract_* method
    result,           \* what the method returned (or the exception it raised)
    interactions,     \* content.interactiveVideo.assets.interactions
    pos,              \* extract_all_answers: interactions consumed by the loop
    answers,          \* extract_all_answers: the list being built
    question_number,  \* extract_all_answers: the counter
    console,          \* what has been printed to standard output
    file_out,         \* what has been written to the report file
    file_path,        \* extract_answers: the local file_path
    original_input,   \* extract_answers: the local original_input
    temp_dir,         \* extract_answers: the local temp_dir
    fs_temp,          \* the temporary directories that exist on disk
    written,          \* the report files written, by path
    error             \* the except clause a run went through, if any

varsClean == <<text, clean_text>>
varsCall == <<library, params, result>>
varsLoop == <<interactions, pos, answers, question_number>>
varsReport == <<console, file_out>>
varsRun == <<file_path, original_input, temp_dir, fs_temp, written, error>>
vars == <<pc, varsClean, varsCall, varsLoop, varsReport, varsRun>>

\* value of the variables an operation does not use
Unused == <<>>
IdleClean == text = Unused /\ clean_text = Unused
IdleCall == library = Unused /\ params = Unused /\ result = Unused
IdleLoop ==
    interactions = Unused /\ pos = 0 /\ answers = Unused /\ question_number = 0
IdleReport == console = Unused /\ file_out = Unused
IdleRun ==
    /\ file_path = Unused /\ original_input = Unused /\ temp_dir = Unused
    /\ fs_temp = {} /\ written = {} /\ error = Unused

(***************************************************************************)
(* Bounds of the model.                                                    *)
(***************************************************************************)
MaxTextFrags == 4     \* fragments concatenated into one raw text

(***************************************************************************)
(* Strings.                                                                *)
(***************************************************************************)
RECURSIVE Concats(_, _)
Concats(F, n) ==
    IF n = 0 THEN {<<>>}
    ELSE LET prev == Concats(F, n - 1)
         IN  prev \cup {p \o f : p \in prev, f \in F}

Letters ==
    {"a","b","c","d","e","f","g","h","i","j","k","l","m","n","o","p","q","r",
     "s","t","u","v","w","x","y","z",
     "A","B","C","D","E","F","G","H","I","J","K","L","M","N","O","P","Q","R",
     "S","T","U","V","W","X","Y","Z"}

\* the characters \s matches and str.strip removes, among those of the model
Whitespace == {" ", "\n", "\t"}

Contains(s, c) == \E i \in 1..Len(s) : s[i] = c

\* `sub in s` for Python strings
IsSubstring(sub, s) ==
    \E i \in 1..(Len(s) - Len(sub) + 1) : SubSeq(s, i, i + Len(sub) - 1) = sub

(***************************************************************************)
(* _clean_html_text, h5p_answer_extractor.py 41-52.                        *)
(***************************************************************************)
\* re.sub(r"<[^>]+>", "", text): a match starts at a '<' that is followed by at
\* least one character other than '>' and then, somewhere, by a '>'; [^>]+ is
\* greedy but cannot cross a '>', so the match ends at the first '>'.
TagEnd(s, i) ==
    IF s[i] = "<" /\ i + 1 <= Len(s) /\ s[i + 1] # ">"
       /\ \E j \in (i + 2)..Len(s) : s[j] = ">"
    THEN CHOOSE j \in (i + 2)..Len(s) :
             s[j] = ">" /\ \A k \in (i + 2)..(j - 1) : s[k] # ">"
    ELSE 0

RECURSIVE SubTagsFrom(_, _)
SubTagsFrom(s, i) ==
    IF i > Len(s) THEN <<>>
    ELSE IF TagEnd(s, i) # 0 THEN SubTagsFrom(s, TagEnd(s, i) + 1)
    ELSE <<s[i]>> \o SubTagsFrom(s, i + 1)

\* variant: re.sub(..., count=1), only the first tag is removed
SubTagsFirstOnly(s) ==
    IF \E i \in 1..Len(s) : TagEnd(s, i) # 0
    THEN LET i == CHOOSE i \in 1..Len(s) :
                      TagEnd(s, i) # 0 /\ \A k \in 1..(i - 1) : TagEnd(s, k) = 0
         IN  SubSeq(s, 1, i - 1) \o SubSeq(s, TagEnd(s, i) + 1, Len(s))
    ELSE s

SubTags(s) == SubTagsFrom(s, 1)

\* re.sub(r"&nbsp;", " ", clean_text)
Nbsp == <<"&", "n", "b", "s", "p", ";">>

RECURSIVE SubNbspFrom(_, _)
SubNbspFrom(s, i) ==
    IF i > Len(s) THEN <<>>
    ELSE IF i + 5 <= Len(s) /\ SubSeq(s, i, i + 5) = Nbsp
         THEN <<" ">> \o SubNbspFrom(s, i + 6)
    ELSE <<s[i]>> \o SubNbspFrom(s, i + 1)

SubNbsp(s) == SubNbspFrom(s, 1)

\* re.sub(r"&[a-zA-Z]+;", "", clean_text): '&', the longest run of letters
\* (one at least), then ';'
RECURSIVE LetterRun(_, _)
LetterRun(s, i) ==
    IF i <= Len(s) /\ s[i] \in Letters THEN 1 + LetterRun(s, i + 1) ELSE 0

EntityEnd(s, i) ==
    LET k == LetterRun(s, i + 1)
    IN  IF s[i] = "&" /\ k >= 1 /\ i + k + 1 <= Len(s) /\ s[i + k + 1] = ";"
        THEN i + k + 1
        ELSE 0

RECURSIVE SubEntitiesFrom(_, _)
SubEntitiesFrom(s, i) ==
    IF i > Len(s) THEN <<>>
    ELSE IF EntityEnd(s, i) # 0 THEN SubEntitiesFrom(s, EntityEnd(s, i) + 1)
    ELSE <<s[i]>> \o SubEntitiesFrom(s, i + 1)

SubEntities(s) == SubEntitiesFrom(s, 1)

\* re.sub(r"\s+", " ", clean_text)
RECURSIVE SubWhitespaceFrom(_, _)
SubWhitespaceFrom(s, i) ==
    IF i > Len(s) THEN <<>>
    ELSE IF s[i] \in Whitespace
         THEN IF i > 1 /\ s[i - 1] \in Whitespace
              THEN SubWhitespaceFrom(s, i + 1)
              ELSE <<" ">> \o SubWhitespaceFrom(s, i + 1)
    ELSE <<s[i]>> \o SubWhitespaceFrom(s, i + 1)

SubWhitespace(s) == SubWhitespaceFrom(s, 1)

\* str.strip()
Strip(s) ==
    LET keep == {i \in 1..Len(s) : s[i] \notin Whitespace}
    IN  IF keep = {} THEN <<>>
        ELSE SubSeq(s, CHOOSE i \in keep : \A j \in keep : i <= j,
                       CHOOSE i \in keep : \A j \in keep : i >= j)

clean_html_text(t) ==
    IF t = <<>> THEN <<>>
    ELSE Strip(SubWhitespace(SubEntities(SubNbsp(SubTags(t)))))

(***************************************************************************)
(* SpecClean: _clean_html_text applied to every raw text of TextInputs.    *)
(***************************************************************************)
TextFrags ==
    { <<"<">>, <<">">>, <<"b">>, <<"<", "b", ">">>, <<" ">>, <<"\n">>,
      Nbsp, <<"&", "a", "m", "p", ";">> }

TextInputs == Concats(TextFrags, MaxTextFrags)

InitClean ==
    /\ pc = "clean"
    /\ text \in TextInputs
    /\ clean_text = <<>>
    /\ IdleCall /\ IdleLoop /\ IdleReport /\ IdleRun

CleanHtmlText ==
    /\ pc = "clean"
    /\ clean_text' = clean_html_text(text)
    /\ pc' = "cleaned"
    /\ UNCHANGED <<text, varsCall, varsLoop, varsReport, varsRun>>

NextClean == CleanHtmlText

SpecClean == InitClean /\ [][NextClean]_vars

\* C6: the output of _clean_html_text holds no '<', no '>' and no two
\* consecutive whitespace characters, whatever the input.
C6_NoAngleNoDoubleSpace ==
    pc = "cleaned" =>
        /\ ~Contains(clean_text, "<")
        /\ ~Contains(clean_text, ">")
        /\ \A i \in 1..(Len(clean_text) - 1) :
               ~(clean_text[i] \in Whitespace /\ clean_text[i + 1] \in Whitespace)

\* C6 as amended: the output holds no tag (a '<', one or more characters other
\* than '>', then a '>'), no two consecutive whitespace characters, and no
\* whitespace at either end.
C6_NoTagNoDoubleSpace ==
    pc = "cleaned" =>
        /\ \A i \in 1..Len(clean_text) : TagEnd(clean_text, i) = 0
        /\ \A i \in 1..(Len(clean_text) - 1) :
               ~(clean_text[i] \in Whitespace /\ clean_text[i + 1] \in Whitespace)
        /\ clean_text # <<>> =>
               /\ clean_text[1] \notin Whitespace
               /\ clean_text[Len(clean_text)] \notin Whitespace

C6_Witness ==
    /\ pc = "cleaned"
    /\ text = <<"<", "<", "b", ">", "b", ">">>
    /\ clean_text = <<"b", ">">>

(***************************************************************************)
(* Python values.                                                          *)
(***************************************************************************)
\* None: no str of the model (a str holds one-character strings only)
None == <<"<None>">>

\* A str literal of the code that is only compared or printed, never searched,
\* is kept whole, as a sequence of one element: the type names <<"Drag Text">>,
\* the fixed parts of the report.

\* {} and [] : a dict is a function from its keys, a list a sequence
EmptyDict == <<>>

\* dict.get(key, default)
Get(d, key, default) == IF key \in DOMAIN d THEN d[key] ELSE default

\* dict.update(other)
Update(d, other) ==
    [k \in DOMAIN d \cup DOMAIN other |->
        IF k \in DOMAIN other THEN other[k] ELSE d[k]]

UpperCase ==
    <<"A","B","C","D","E","F","G","H","I","J","K","L","M","N","O","P","Q","R",
      "S","T","U","V","W","X","Y","Z">>
LowerCase ==
    <<"a","b","c","d","e","f","g","h","i","j","k","l","m","n","o","p","q","r",
      "s","t","u","v","w","x","y","z">>

\* chr(code) for the codes of the capital letters, 65..90
chr(code) == <<UpperCase[code - 64]>>

LowerChar(c) ==
    IF \E i \in 1..26 : UpperCase[i] = c
    THEN LowerCase[CHOOSE i \in 1..26 : UpperCase[i] = c]
    ELSE c
UpperChar(c) ==
    IF \E i \in 1..26 : LowerCase[i] = c
    THEN UpperCase[CHOOSE i \in 1..26 : LowerCase[i] = c]
    ELSE c

\* str.lower(), str.capitalize(), str.endswith(suffix)
lower(s) == [i \in 1..Len(s) |-> LowerChar(s[i])]
capitalize(s) ==
    [i \in 1..Len(s) |-> IF i = 1 THEN UpperChar(s[i]) ELSE LowerChar(s[i])]
endswith(s, suffix) ==
    Len(suffix) <= Len(s) /\ SubSeq(s, Len(s) - Len(suffix) + 1, Len(s)) = suffix

(***************************************************************************)
(* _extract_multiple_choice_answers, h5p_answer_extractor.py 54-83.        *)
(***************************************************************************)
\* variant: the first entry flagged correct is kept (a break after line 77)
KeepFirstCorrect(correct_answer, is_correct, i) ==
    IF is_correct /\ correct_answer = None THEN chr(65 + i) ELSE correct_answer

\* lines 76-77
SetCorrectAnswer(correct_answer, is_correct, i) ==
    IF is_correct THEN chr(65 + i) ELSE correct_answer

\* the loop of lines 64-77, from index i on
RECURSIVE MultipleChoiceLoop(_, _, _, _)
MultipleChoiceLoop(answer_list, i, answer_options, correct_answer) ==
    IF i >= Len(answer_list)
    THEN [answers |-> answer_options, correct_answer |-> correct_answer]
    ELSE LET answer == answer_list[i + 1]
             answer_text == clean_html_text(Get(answer, "text", <<>>))
             is_correct == Get(answer, "correct", FALSE)
         IN  MultipleChoiceLoop(
                 answer_list, i + 1,
                 Append(answer_options,
                        [option |-> chr(65 + i), text |-> answer_text,
                         is_correct |-> is_correct]),
                 SetCorrectAnswer(correct_answer, is_correct, i))

extract_multiple_choice_answers(p) ==
    LET question_text == clean_html_text(Get(p, "question", <<>>))
        looped == MultipleChoiceLoop(Get(p, "answers", <<>>), 0, <<>>, None)
    IN  [question |-> question_text,
         answers |-> looped.answers,
         correct_answer |-> looped.correct_answer]

(***************************************************************************)
(* SpecMC: _extract_multiple_choice_answers applied to every params of     *)
(* MCParams.                                                               *)
(***************************************************************************)
MaxAnswers == 3       \* entries of a Multiple Choice answers list

RECURSIVE SeqsUpTo(_, _)
SeqsUpTo(S, k) ==
    IF k = 0 THEN {<<>>}
    ELSE LET prev == SeqsUpTo(S, k - 1)
         IN  prev \cup {Append(q, x) : q \in prev, x \in S}

\* an entry of params.answers: "correct" true, false or absent
AnswerEntries ==
    {[text |-> t, correct |-> c] : t \in {<<"x">>, <<"<", "b", ">", "y">>},
                                   c \in BOOLEAN}
    \cup {[text |-> <<"z">>]}

MCParams ==
    {[question |-> <<"Q">>, answers |-> a] : a \in SeqsUpTo(AnswerEntries, MaxAnswers)}

InitMC ==
    /\ pc = "call"
    /\ library = Unused
    /\ params \in MCParams
    /\ result = Unused
    /\ IdleClean /\ IdleLoop /\ IdleReport /\ IdleRun

ExtractMultipleChoice ==
    /\ pc = "call"
    /\ result' = extract_multiple_choice_answers(params)
    /\ pc' = "returned"
    /\ UNCHANGED <<library, params, varsClean, varsLoop, varsReport, varsRun>>

NextMC == ExtractMultipleChoice

SpecMC == InitMC /\ [][NextMC]_vars

\* the positions (0-based) of the entries of params.answers flagged correct
FlaggedCorrect ==
    {i \in 0..(Len(params.answers) - 1) :
        Get(params.answers[i + 1], "correct", FALSE)}

\* C3: correct_answer is the label of the first entry flagged correct, and
\* None when no entry is flagged, also with several entries flagged.
C3_FirstCorrect ==
    pc = "returned" =>
        IF FlaggedCorrect = {} THEN result.correct_answer = None
        ELSE result.correct_answer =
                 chr(65 + CHOOSE i \in FlaggedCorrect : \A j \in FlaggedCorrect : i <= j)

\* C3 as amended: one option per entry, labelled A, B, C, ... in input order;
\* correct_answer is the label of the last entry flagged correct, and None
\* when no entry is flagged.
C3_LastCorrect ==
    pc = "returned" =>
        /\ Len(result.answers) = Len(params.answers)
        /\ \A i \in 0..(Len(params.answers) - 1) :
               /\ result.answers[i + 1].option = <<UpperCase[i + 1]>>
               /\ result.answers[i + 1].is_correct = (i \in FlaggedCorrect)
        /\ IF FlaggedCorrect = {} THEN result.correct_answer = None
           ELSE result.correct_answer =
                    <<UpperCase[1 + CHOOSE i \in FlaggedCorrect :
                                        \A j \in FlaggedCorrect : i >= j]>>

C3_Witness ==
    /\ pc = "returned"
    /\ Cardinality(FlaggedCorrect) = 2
    /\ 0 \in FlaggedCorrect
    /\ result.correct_answer # <<"A">>

(***************************************************************************)
(* _extract_drag_drop_answers, h5p_answer_extractor.py 85-132.             *)
(*                                                                         *)
(* A JSON value handed to int() is [kind |-> "int", num |-> i] (a number), *)
(* [kind |-> "str", str |-> s] (a string) or [kind |-> "null"].            *)
(***************************************************************************)
Digits == <<"0", "1", "2", "3", "4", "5", "6", "7", "8", "9">>
IsDigit(c) == \E d \in 1..10 : Digits[d] = c
DigitValue(c) == (CHOOSE d \in 1..10 : Digits[d] = c) - 1

RECURSIVE DecimalValue(_)
DecimalValue(s) ==
    IF s = <<>> THEN 0
    ELSE 10 * DecimalValue(SubSeq(s, 1, Len(s) - 1)) + DigitValue(s[Len(s)])

\* int(v): [value |-> i], or [exception |-> the exception raised]
int(v) ==
    IF v.kind = "int" THEN [value |-> v.num]
    ELSE IF v.kind = "str"
    THEN LET s == Strip(v.str)
             signed == s # <<>> /\ s[1] \in {"+", "-"}
             digits == IF signed THEN Tail(s) ELSE s
         IN  IF digits # <<>> /\ \A i \in 1..Len(digits) : IsDigit(digits[i])
             THEN [value |-> IF signed /\ s[1] = "-"
                             THEN 0 - DecimalValue(digits)
                             ELSE DecimalValue(digits)]
             ELSE [exception |-> "ValueError"]
    ELSE [exception |-> "TypeError"]

AdvancedText ==
    <<"H", "5", "P", ".", "A", "d", "v", "a", "n", "c", "e", "d", "T", "e", "x", "t",
      " ", "1", ".", "1">>

\* the loop of lines 100-106
RECURSIVE DragItemsLoop(_, _)
DragItemsLoop(elements, drag_items) ==
    IF elements = <<>> THEN drag_items
    ELSE LET element_type == Get(Head(elements), "type", EmptyDict)
         IN  IF Get(element_type, "library", None) = AdvancedText
             THEN DragItemsLoop(
                      Tail(elements),
                      Append(drag_items,
                             clean_html_text(
                                 Get(Get(element_type, "params", EmptyDict),
                                     "text", <<>>))))
             ELSE DragItemsLoop(Tail(elements), drag_items)

\* correct_matches is a dict in insertion order: a sequence of
\* [item |-> key, zones |-> list]
HasKey(matches, key) == \E k \in 1..Len(matches) : matches[k].item = key

\* lines 121-123
AppendMatch(matches, key, idx) ==
    IF HasKey(matches, key)
    THEN [k \in 1..Len(matches) |->
             IF matches[k].item = key
             THEN [item |-> key, zones |-> Append(matches[k].zones, idx)]
             ELSE matches[k]]
    ELSE Append(matches, [item |-> key, zones |-> <<idx>>])

\* drag_items[element_idx] of line 120 is defined: a Python list takes the
\* indices -len .. len-1 and raises IndexError for the others
ListIndexOk(list, element_idx) ==
    0 - Len(list) <= element_idx /\ element_idx < Len(list)
ListItem(list, element_idx) ==
    IF element_idx >= 0 THEN list[element_idx + 1]
    ELSE list[Len(list) + element_idx + 1]

\* line 119
InRange(element_idx, drag_items) == element_idx < Len(drag_items)

\* lines 116-125 for one entry of correctElements: the new correct_matches, or
\* the exception that leaves the method
MatchEntry(matches, drag_items, entry, idx) ==
    LET parsed == int(entry)
    IN  IF "exception" \in DOMAIN parsed
        THEN IF parsed.exception = "ValueError"
             THEN [matches |-> matches]
             ELSE [exception |-> parsed.exception]
        ELSE IF InRange(parsed.value, drag_items)
             THEN IF ListIndexOk(drag_items, parsed.value)
                  THEN [matches |->
                           AppendMatch(matches,
                                       ListItem(drag_items, parsed.value), idx)]
                  ELSE [matches |-> matches]     \* IndexError, caught
             ELSE [matches |-> matches]

RECURSIVE CorrectElementsLoop(_, _, _, _)
CorrectElementsLoop(matches, drag_items, correct_elements, idx) ==
    IF correct_elements = <<>> THEN [matches |-> matches]
    ELSE LET one == MatchEntry(matches, drag_items, Head(correct_elements), idx)
         IN  IF "exception" \in DOMAIN one THEN one
             ELSE CorrectElementsLoop(one.matches, drag_items,
                                      Tail(correct_elements), idx)

\* the loop of lines 109-125, from zone idx (0-based) on
RECURSIVE DropZonesLoop(_, _, _, _, _)
DropZonesLoop(drop_zones, idx, drag_items, drop_areas, matches) ==
    IF idx >= Len(drop_zones)
    THEN [drop_areas |-> drop_areas, correct_matches |-> matches]
    ELSE LET zone == drop_zones[idx + 1]
             zone_label == clean_html_text(Get(zone, "label", <<>>))
             areas == IF zone_label # <<>> THEN Append(drop_areas, zone_label)
                      ELSE drop_areas
             got == CorrectElementsLoop(matches, drag_items,
                                        Get(zone, "correctElements", <<>>), idx)
         IN  IF "exception" \in DOMAIN got THEN got
             ELSE DropZonesLoop(drop_zones, idx + 1, drag_items, areas, got.matches)

\* the returned dict, or [exception |-> e] when the method raises e
extract_drag_drop_answers(p) ==
    LET question_data == Get(p, "question", EmptyDict)
        task == Get(question_data, "task", EmptyDict)
        elements == Get(task, "elements", <<>>)
        drop_zones == Get(task, "dropZones", <<>>)
        drag_items == DragItemsLoop(elements, <<>>)
        zoned == DropZonesLoop(drop_zones, 0, drag_items, <<>>, <<>>)
    IN  IF "exception" \in DOMAIN zoned THEN zoned
        ELSE [type |-> <<"Drag and Drop">>,
              drag_items |-> drag_items,
              drop_areas |-> zoned.drop_areas,
              correct_matches |-> zoned.correct_matches]

(***************************************************************************)
(* SpecDragDrop: _extract_drag_drop_answers applied to every params of     *)
(* DDParams.                                                               *)
(***************************************************************************)
MaxElements == 2      \* entries of question.task.elements
MaxZones == 2         \* entries of question.task.dropZones
MaxCorrect == 2       \* entries of one zone's correctElements

ElementKinds ==
    {[type |-> [library |-> AdvancedText, params |-> [text |-> t]]] :
        t \in {<<"P">>, <<"<", "b", ">", "B">>}}
    \cup {[type |-> [library |-> <<"H", "5", "P", ".", "I", "m", "a", "g", "e">>,
                     params |-> EmptyDict]]}

\* entries of correctElements: numbers, numeric and other strings, null
EntryValues ==
    {[kind |-> "int", num |-> i] : i \in {-3, -1, 0, 1, 2}}
    \cup {[kind |-> "str", str |-> <<"1">>], [kind |-> "str", str |-> <<"x">>],
          [kind |-> "null"]}

ZoneKinds ==
    {[label |-> <<"Z">>, correctElements |-> c] : c \in SeqsUpTo(EntryValues, MaxCorrect)}
    \cup {[correctElements |-> <<[kind |-> "int", num |-> 0]>>]}

DDParams ==
    {[question |-> [task |-> [elements |-> e, dropZones |-> z]]] :
        e \in SeqsUpTo(ElementKinds, MaxElements),
        z \in SeqsUpTo(ZoneKinds, MaxZones)}

InitDragDrop ==
    /\ pc = "call"
    /\ library = Unused
    /\ params \in DDParams
    /\ result = Unused
    /\ IdleClean /\ IdleLoop /\ IdleReport /\ IdleRun

ExtractDragDrop ==
    /\ pc = "call"
    /\ result' = extract_drag_drop_answers(params)
    /\ pc' = "returned"
    /\ UNCHANGED <<library, params, varsClean, varsLoop, varsReport, varsRun>>

NextDragDrop == ExtractDragDrop

SpecDragDrop == InitDragDrop /\ [][NextDragDrop]_vars

\* the zone positions correct_matches holds under key t
ZonesOf(matches, t) ==
    {z \in 0..(MaxZones + 1) :
        \E k \in 1..Len(matches) :
            matches[k].item = t /\ \E q \in 1..Len(matches[k].zones) :
                                        matches[k].zones[q] = z}

\* zone z of params names t: one of its correctElements parses to an integer
\* e with 0 <= e < len(drag_items) and drag_items[e] = t
ZoneNames(z, t, drag_items) ==
    LET correct_elements ==
            Get(params.question.task.dropZones[z + 1], "correctElements", <<>>)
    IN  \E q \in 1..Len(correct_elements) :
            LET parsed == int(correct_elements[q])
            IN  /\ "value" \in DOMAIN parsed
                /\ 0 <= parsed.value /\ parsed.value < Len(drag_items)
                /\ drag_items[parsed.value + 1] = t

\* C7: the extraction does not fail, and key t of correct_matches holds zone
\* position z exactly when an entry of zone z's correctElements parses to an
\* in-range index e >= 0 of drag_items with drag_items[e] = t; every other
\* entry adds no match.
C7_MatchesExactlyInRange ==
    pc = "returned" =>
        /\ "exception" \notin DOMAIN result
        /\ \A z \in 0..(Len(params.question.task.dropZones) - 1) :
               \A t \in {result.drag_items[e] : e \in 1..Len(result.drag_items)}
                        \cup {result.correct_matches[k].item :
                                  k \in 1..Len(result.correct_matches)} :
                   (z \in ZonesOf(result.correct_matches, t))
                       <=> ZoneNames(z, t, result.drag_items)

(***************************************************************************)
(* _extract_true_false_answers, h5p_answer_extractor.py 134-145.           *)
(* params.correct is [kind |-> "bool", bool |-> b] or                      *)
(* [kind |-> "str", str |-> s].                                            *)
(***************************************************************************)
extract_true_false_answers(p) ==
    LET question_text == clean_html_text(Get(p, "question", <<>>))
        correct == Get(p, "correct", [kind |-> "str", str |-> <<>>])
    IN  [question |-> question_text,
         correct_answer |->
             IF correct.kind = "bool"
             THEN IF correct.bool THEN <<"T", "r", "u", "e">>
                  ELSE <<"F", "a", "l", "s", "e">>
             ELSE capitalize(correct.str)]

(***************************************************************************)
(* re.findall(r"\*(.*?)\*", text), h5p_answer_extractor.py 161 and 174.    *)
(***************************************************************************)
\* '.' matches every character but the line break
Dot(c) == c # "\n"

\* A match starts at a '*'. The lazy .*? stops at the first '*' that follows,
\* and no later '*' can close the match when that one cannot: '.' would have
\* to cross the same characters. 0 when no match starts at i.
StarEnd(s, i) ==
    IF s[i] = "*" /\ \E j \in (i + 1)..Len(s) : s[j] = "*"
    THEN LET j == CHOOSE j \in (i + 1)..Len(s) :
                      s[j] = "*" /\ \A k \in (i + 1)..(j - 1) : s[k] # "*"
         IN  IF \A k \in (i + 1)..(j - 1) : Dot(s[k]) THEN j ELSE 0
    ELSE 0

RECURSIVE FindAllFrom(_, _)
FindAllFrom(s, i) ==
    IF i > Len(s) THEN <<>>
    ELSE IF StarEnd(s, i) # 0
         THEN <<SubSeq(s, i + 1, StarEnd(s, i) - 1)>> \o FindAllFrom(s, StarEnd(s, i) + 1)
    ELSE FindAllFrom(s, i + 1)

findall(s) == FindAllFrom(s, 1)

(***************************************************************************)
(* _extract_fill_in_blanks_answers, h5p_answer_extractor.py 147-165.       *)
(* params.questions is [kind |-> "list", list |-> l] or                    *)
(* [kind |-> "str", str |-> s].                                            *)
(***************************************************************************)
\* "\n".join(list)
RECURSIVE JoinLines(_)
JoinLines(list) ==
    IF list = <<>> THEN <<>>
    ELSE IF Len(list) = 1 THEN list[1]
    ELSE list[1] \o <<"\n">> \o JoinLines(Tail(list))

\* `if questions:` for a list or a str; None (the key is absent) is false
Truthy(v) == IF v.kind = "list" THEN v.list # <<>> ELSE v.str # <<>>

extract_fill_in_blanks_answers(p) ==
    LET questions == Get(p, "questions", None)
        raw == IF "questions" \in DOMAIN p /\ Truthy(questions)
               THEN IF questions.kind = "list" THEN JoinLines(questions.list)
                    ELSE questions.str
               ELSE Get(p, "text", <<>>)
        cleaned == clean_html_text(raw)
    IN  [question |-> cleaned, answers |-> findall(cleaned)]

(***************************************************************************)
(* _extract_drag_text_answers, h5p_answer_extractor.py 167-180.            *)
(***************************************************************************)
extract_drag_text_answers(p) ==
    LET question_text == clean_html_text(Get(p, "taskDescription", <<>>))
        text_field == Get(p, "textField", <<>>)
        found == findall(text_field)
    IN  [question |-> question_text,
         answers |-> [k \in 1..Len(found) |-> clean_html_text(found[k])],
         text_field |-> text_field]

(***************************************************************************)
(* SpecStar: _extract_fill_in_blanks_answers and _extract_drag_text_answers*)
(* applied to every text of StarInputs.                                    *)
(***************************************************************************)
MaxStarFrags == 5     \* fragments concatenated into one text with asterisks

StarFrags == { <<"*">>, <<"a">>, <<" ">>, <<"\n">>, <<"<", "b", ">">> }

StarInputs == Concats(StarFrags, MaxStarFrags)

\* the ways params can carry the text of a Fill in the Blanks question
BlanksParams(t) ==
    { [questions |-> [kind |-> "list", list |-> <<t>>]],
      [questions |-> [kind |-> "list", list |-> <<t, <<"a">>>>]],
      [questions |-> [kind |-> "str", str |-> t]],
      [questions |-> [kind |-> "list", list |-> <<>>], text |-> t],
      [text |-> t] }

InitStar ==
    /\ pc = "call"
    /\ library = Unused
    /\ result = Unused
    /\ \E t \in StarInputs :
           params \in BlanksParams(t)
                      \cup {[taskDescription |-> <<"Q">>, textField |-> t]}
    /\ IdleClean /\ IdleLoop /\ IdleReport /\ IdleRun

ExtractFillInBlanks ==
    /\ pc = "call"
    /\ "textField" \notin DOMAIN params
    /\ result' = extract_fill_in_blanks_answers(params)
    /\ pc' = "blanks"
    /\ UNCHANGED <<library, params, varsClean, varsLoop, varsReport, varsRun>>

ExtractDragText ==
    /\ pc = "call"
    /\ "textField" \in DOMAIN params
    /\ result' = extract_drag_text_answers(params)
    /\ pc' = "dragtext"
    /\ UNCHANGED <<library, params, varsClean, varsLoop, varsReport, varsRun>>

NextStar == ExtractFillInBlanks \/ ExtractDragText

SpecStar == InitStar /\ [][NextStar]_vars

\* the positions of the asterisks of s, in increasing order
RECURSIVE StarPositions(_, _)
StarPositions(s, i) ==
    IF i > Len(s) THEN <<>>
    ELSE IF s[i] = "*" THEN <<i>> \o StarPositions(s, i + 1)
    ELSE StarPositions(s, i + 1)

\* the text between the (2j-1)-th and the 2j-th asterisk of s, for each j
PairedSpans(s) ==
    LET stars == StarPositions(s, 1)
    IN  [j \in 1..(Len(stars) \div 2) |->
            SubSeq(s, stars[2 * j - 1] + 1, stars[2 * j] - 1)]

\* C8, Fill in the Blanks: the answers are the spans between paired asterisks
\* of the normalized text, in order.
C8_BlanksPaired ==
    pc = "blanks" => result.answers = PairedSpans(result.question)

\* C8, Drag Text: the answers are the normalized spans between paired
\* asterisks of the raw textField, in order, line breaks or not.
C8_DragTextPaired ==
    pc = "dragtext" =>
        LET spans == PairedSpans(params.textField)
        IN  result.answers = [j \in 1..Len(spans) |-> clean_html_text(spans[j])]

\* C8: both scans extract every span between a pair of asterisks: a text with
\* 2k asterisks yields k answers, the j-th between asterisks 2j-1 and 2j.
C8_EveryPairExtracted == C8_BlanksPaired /\ C8_DragTextPaired

(***************************************************************************)
(* extract_all_answers, h5p_answer_extractor.py 182-259.                   *)
(***************************************************************************)
MultiChoice == <<"M", "u", "l", "t", "i", "C", "h", "o", "i", "c", "e">>
DragQuestion == <<"D", "r", "a", "g", "Q", "u", "e", "s", "t", "i", "o", "n">>
TrueFalse == <<"T", "r", "u", "e", "F", "a", "l", "s", "e">>
Blanks == <<"B", "l", "a", "n", "k", "s">>
Image == <<"I", "m", "a", "g", "e">>
DragText == <<"D", "r", "a", "g", "T", "e", "x", "t">>

\* variant: the DragText test is made before the Image test
DispatchDragTextBeforeImage(lib) ==
    IF IsSubstring(MultiChoice, lib) THEN "MultiChoice"
    ELSE IF IsSubstring(DragQuestion, lib) THEN "DragQuestion"
    ELSE IF IsSubstring(TrueFalse, lib) THEN "TrueFalse"
    ELSE IF IsSubstring(Blanks, lib) THEN "Blanks"
    ELSE IF IsSubstring(DragText, lib) THEN "DragText"
    ELSE IF IsSubstring(Image, lib) THEN "Image"
    ELSE "Other"

\* the branch the if/elif chain of lines 212-245 takes
Dispatch(lib) ==
    IF IsSubstring(MultiChoice, lib) THEN "MultiChoice"
    ELSE IF IsSubstring(DragQuestion, lib) THEN "DragQuestion"
    ELSE IF IsSubstring(TrueFalse, lib) THEN "TrueFalse"
    ELSE IF IsSubstring(Blanks, lib) THEN "Blanks"
    ELSE IF IsSubstring(Image, lib) THEN "Image"
    ELSE IF IsSubstring(DragText, lib) THEN "DragText"
    ELSE "Other"

\* f"{time_from:.2f}s - {time_to:.2f}s"; the times of the model are whole
\* numbers of seconds
time_range(time_from, time_to) ==
    <<ToString(time_from), ".00s - ", ToString(time_to), ".00s">>

\* dd_data merged into answer_data, lines 220-221; the exception of
\* _extract_drag_drop_answers leaves extract_all_answers too
DragDropData(answer_data, dd_data) ==
    IF "exception" \in DOMAIN dd_data
    THEN [kind |-> "raise", exception |-> dd_data.exception]
    ELSE [kind |-> "data", answer_data |-> Update(answer_data, dd_data)]

\* lines 214-216, 225-227, 231-233, 241-243: update, then set the type
TypedData(answer_data, data, type) ==
    [kind |-> "data",
     answer_data |-> Update(Update(answer_data, data), [type |-> type])]

\* lines 212-248 in the branch taken: [kind |-> "continue"] (line 237),
\* [kind |-> "raise", exception |-> e] when an _extract_* method raises e, or
\* [kind |-> "data", answer_data |-> the dict built]
BranchData(branch, answer_data, p) ==
    CASE branch = "MultiChoice" ->
             TypedData(answer_data, extract_multiple_choice_answers(p),
                       <<"Multiple Choice">>)
      [] branch = "DragQuestion" ->
             DragDropData(answer_data, extract_drag_drop_answers(p))
      [] branch = "TrueFalse" ->
             TypedData(answer_data, extract_true_false_answers(p), <<"True/False">>)
      [] branch = "Blanks" ->
             TypedData(answer_data, extract_fill_in_blanks_answers(p),
                       <<"Fill in the Blanks">>)
      [] branch = "Image" -> [kind |-> "continue"]
      [] branch = "DragText" ->
             TypedData(answer_data, extract_drag_text_answers(p), <<"Drag Text">>)
      [] OTHER ->
             [kind |-> "data",
              answer_data |-> Update(answer_data,
                                     [type |-> <<"Other">>, raw_params |-> p])]

\* lines 196-198
ActionOf(interaction) == Get(interaction, "action", EmptyDict)
LibraryOf(interaction) == Get(ActionOf(interaction), "library", <<>>)
ParamsOf(interaction) == Get(ActionOf(interaction), "params", EmptyDict)

\* lines 201-210
NewAnswerData(interaction, number) ==
    [question_number |-> number,
     library_type |-> LibraryOf(interaction),
     time_range |->
         time_range(Get(Get(interaction, "duration", EmptyDict), "from", 0),
                    Get(Get(interaction, "duration", EmptyDict), "to", 0)),
     subcontent_id |-> Get(ActionOf(interaction), "subContentId", <<>>)]

\* lines 196-248 for one interaction
BuildAnswerData(interaction, number) ==
    BranchData(Dispatch(LibraryOf(interaction)),
               NewAnswerData(interaction, number),
               ParamsOf(interaction))

\* variant: Drag Text is missing from the list of lines 250-255
KeptTypesWithoutDragText ==
    {<<"Drag and Drop">>, <<"Fill in the Blanks">>, <<"True/False">>}

\* the list of lines 250-255
KeptTypes ==
    {<<"Drag and Drop">>, <<"Fill in the Blanks">>, <<"True/False">>, <<"Drag Text">>}

\* the test of lines 250-255
Emitted(answer_data) ==
    \/ Get(answer_data, "question", <<>>) # <<>>
    \/ Get(answer_data, "type", None) \in KeptTypes

\* variant: the counter is incremented for every record built, emitted or not
IncrementAlways(number, emitted) == number + 1

\* line 257, in the if of line 250
Increment(number, emitted) == IF emitted THEN number + 1 ELSE number

\* lines 237 and 250-257 on the state [answers, question_number, raised] of
\* the loop; raised is None or <<the exception>>
AppendIfEmitted(state, built) ==
    IF built.kind = "continue" THEN state
    ELSE IF built.kind = "raise"
    THEN [state EXCEPT !.raised = <<built.exception>>]
    ELSE [state EXCEPT
             !.answers = IF Emitted(built.answer_data)
                         THEN Append(@, built.answer_data) ELSE @,
             !.question_number = Increment(@, Emitted(built.answer_data))]

\* one iteration of the loop of lines 195-257
LoopBody(state, interaction) ==
    AppendIfEmitted(state, BuildAnswerData(interaction, state.question_number))

\* extract_all_answers on list, as a function: the state the loop ends in
RECURSIVE LoopFrom(_, _)
LoopFrom(state, list) ==
    IF list = <<>> \/ state.raised # None THEN state
    ELSE LoopFrom(LoopBody(state, Head(list)), Tail(list))

extract_all_answers(list) ==
    LoopFrom([answers |-> <<>>, question_number |-> 1, raised |-> None], list)

(***************************************************************************)
(* Spec: the loop of extract_all_answers, one iteration at a time, on      *)
(* every list of at most MaxInteractions interactions of                   *)
(* SampleInteractions.                                                     *)
(***************************************************************************)
MaxInteractions == 3  \* interactions of one content.json

H5P(name) == <<"H", "5", "P", ".">> \o name

Interaction(lib, id, p) ==
    [action |-> [library |-> lib, params |-> p, subContentId |-> id],
     duration |-> [from |-> 1, to |-> 2]]

SampleDragDropParams(entry) ==
    [question |->
        [task |->
            [elements |->
                 <<[type |-> [library |-> AdvancedText,
                              params |-> [text |-> <<"P">>]]]>>,
             dropZones |->
                 <<[label |-> <<"Z">>, correctElements |-> <<entry>>]>>]]]

SampleInteractions ==
    { Interaction(H5P(MultiChoice), <<"m", q[1]>>,
                  [question |-> q,
                   answers |-> <<[text |-> <<"x">>, correct |-> FALSE],
                                 [text |-> <<"y">>, correct |-> TRUE]>>]) :
          q \in {<<"<", "b", ">">>, <<"Q">>} }
    \cup
    { Interaction(H5P(DragQuestion), <<"d", e.kind>>, SampleDragDropParams(e)) :
          e \in {[kind |-> "int", num |-> 0], [kind |-> "null"]} }
    \cup
    { Interaction(H5P(TrueFalse), <<"t">> \o q,
                  [question |-> q, correct |-> [kind |-> "bool", bool |-> FALSE]]) :
          q \in {<<>>, <<"Q">>} }
    \cup
    { Interaction(H5P(Blanks), <<"b">> \o t, [text |-> t]) :
          t \in {<<>>, <<"a", " ", "*", "b", "*">>} }
    \cup
    { [action |-> [library |-> H5P(Image), params |-> EmptyDict,
                   subContentId |-> <<"i">>]] }
    \cup
    { Interaction(H5P(DragText), <<"x">> \o q,
                  [taskDescription |-> q, textField |-> <<"*", "a", "*">>]) :
          q \in {<<>>, <<"Q">>} }
    \cup
    { Interaction(H5P(<<"T", "e", "x", "t">>), <<"o">>, [question |-> <<"Q">>]) }

Init ==
    /\ pc = "loop"
    /\ interactions \in SeqsUpTo(SampleInteractions, MaxInteractions)
    /\ pos = 0
    /\ answers = <<>>
    /\ question_number = 1
    /\ result = Unused
    /\ library = Unused /\ params = Unused
    /\ IdleClean /\ IdleReport /\ IdleRun

\* the loop moves to state: on to the next interaction, or out of the
\* method with the exception raised
MoveTo(state) ==
    /\ answers' = state.answers
    /\ question_number' = state.question_number
    /\ IF state.raised # None
       THEN /\ pc' = "raised"
            /\ result' = [exception |-> state.raised[1]]
            /\ pos' = pos
       ELSE /\ pos' = pos + 1
            /\ UNCHANGED <<pc, result>>

\* one iteration, lines 195-257
Iterate ==
    /\ pc = "loop"
    /\ pos < Len(interactions)
    /\ MoveTo(LoopBody([answers |-> answers,
                        question_number |-> question_number,
                        raised |-> None],
                       interactions[pos + 1]))
    /\ UNCHANGED <<interactions, library, params, varsClean, varsReport, varsRun>>

\* line 259
Return ==
    /\ pc = "loop"
    /\ pos = Len(interactions)
    /\ result' = answers
    /\ pc' = "returned"
    /\ UNCHANGED <<interactions, pos, answers, question_number, library, params,
                   varsClean, varsReport, varsRun>>

Next == Iterate \/ Return

Spec == Init /\ [][Next]_vars

\* the interaction yields a record: it is not skipped and passes the test
YieldsRecord(interaction) ==
    LET built == BuildAnswerData(interaction, 1)
    IN  built.kind = "data" /\ Emitted(built.answer_data)

\* C1: the k-th record has question_number k, during the loop and on return;
\* the counter is one more than the number of records; and the records
\* returned are those of the list without the interactions that yield none.
C1_DenseNumbering ==
    /\ \A k \in 1..Len(answers) : answers[k].question_number = k
    /\ pc \in {"loop", "returned"} => question_number = Len(answers) + 1
    /\ pc = "returned" =>
           /\ \A k \in 1..Len(result) : result[k].question_number = k
           /\ result = extract_all_answers(SelectSeq(interactions, YieldsRecord)).answers

C1_Witness ==
    /\ pc = "returned"
    /\ Len(interactions) = 3
    /\ ~YieldsRecord(interactions[1])
    /\ Dispatch(interactions[2].action.library) = "Image"
    /\ YieldsRecord(interactions[3])
    /\ Len(result) = 1
    /\ result[1].question_number = 1

\* what C10 says of one interaction: it is not skipped, and its type is one
\* of the four kept types or it is a Multiple Choice with a non-empty
\* (normalized) question; an Other never is.
C10_ShouldEmit(interaction) ==
    LET branch == Dispatch(interaction.action.library)
    IN  \/ branch \in {"DragQuestion", "Blanks", "TrueFalse", "DragText"}
        \/ /\ branch = "MultiChoice"
           /\ clean_html_text(Get(interaction.action.params, "question", <<>>)) # <<>>

\* C10: the records emitted so far are those of the interactions consumed
\* that are not skipped and have a non-empty question or a kept type.
C10_EmittedIff ==
    LET kept == SelectSeq(SubSeq(interactions, 1, pos), C10_ShouldEmit)
    IN  /\ Len(answers) = Len(kept)
        /\ \A k \in 1..Len(answers) :
               /\ answers[k].subcontent_id = kept[k].action.subContentId
               /\ answers[k].library_type = kept[k].action.library

C10_Witness ==
    /\ pc = "returned"
    /\ Len(interactions) = 3
    /\ Dispatch(interactions[1].action.library) = "MultiChoice"
    /\ Dispatch(interactions[2].action.library) = "Other"
    /\ Dispatch(interactions[3].action.library) = "DragText"
    /\ interactions[3].action.params.taskDescription = <<>>
    /\ Len(result) = 1
    /\ result[1].type = <<"Drag Text">>

(***************************************************************************)
(* SpecDispatch: lines 196-248 applied to one interaction, for every       *)
(* library string of Libraries.                                            *)
(***************************************************************************)
MaxLibFrags == 2      \* fragments concatenated into one library string

LibFrags ==
    { <<"H", "5", "P", ".">>, MultiChoice, DragQuestion, TrueFalse, Blanks, Image,
      DragText, <<"D", "r", "a", "g">>, <<"T", "e", "x", "t">>, <<" ", "1", ".", "1">> }

Libraries == Concats(LibFrags, MaxLibFrags)

InitDispatch ==
    /\ pc = "call"
    /\ library \in Libraries
    /\ params \in {EmptyDict, [text |-> <<"*", "a", "*">>]}
    /\ result = Unused
    /\ IdleClean /\ IdleLoop /\ IdleReport /\ IdleRun

DispatchInteraction ==
    /\ pc = "call"
    /\ result' = BuildAnswerData([action |-> [library |-> library, params |-> params]], 1)
    /\ pc' = "returned"
    /\ UNCHANGED <<library, params, varsClean, varsLoop, varsReport, varsRun>>

NextDispatch == DispatchInteraction

SpecDispatch == InitDispatch /\ [][NextDispatch]_vars

\* the priority order C2 states: substring, then the type given ("skip" for
\* an interaction that yields no record)
C2_Priority ==
    << <<MultiChoice, "Multiple Choice">>, <<DragQuestion, "Drag and Drop">>,
       <<TrueFalse, "True/False">>, <<Blanks, "Fill in the Blanks">>,
       <<Image, "skip">>, <<DragText, "Drag Text">> >>

C2_Matching == {i \in 1..Len(C2_Priority) : IsSubstring(C2_Priority[i][1], library)}

C2_Expected ==
    IF C2_Matching = {} THEN "Other"
    ELSE C2_Priority[CHOOSE i \in C2_Matching : \A j \in C2_Matching : i <= j][2]

\* C2: the outcome is the one of the earliest entry of the priority order
\* whose substring the library contains, Other when it contains none.
C2_FirstMatchWins ==
    pc = "returned" =>
        IF C2_Expected = "skip" THEN result.kind = "continue"
        ELSE result.kind = "data" /\ result.answer_data.type = <<C2_Expected>>

C2_Witness ==
    /\ pc = "returned"
    /\ library = Image \o DragText
    /\ result.kind = "continue"

(***************************************************************************)
(* os.path and the output path of save_answers_to_file,                    *)
(* h5p_answer_extractor.py 331-338.                                        *)
(***************************************************************************)
\* os.path.basename(path): what follows the last '/'
basename(path) ==
    LET slashes == {i \in 1..Len(path) : path[i] = "/"}
    IN  IF slashes = {} THEN path
        ELSE SubSeq(path, 1 + CHOOSE i \in slashes : \A j \in slashes : i >= j,
                    Len(path))

\* os.path.splitext(name)[0]: name up to its last '.', unless that '.' has
\* only '.' before it
splitext_root(name) ==
    LET dots == {i \in 1..Len(name) :
                    name[i] = "." /\ \E k \in 1..(i - 1) : name[k] # "."}
    IN  IF dots = {} THEN name
        ELSE SubSeq(name, 1, (CHOOSE i \in dots : \A j \in dots : i >= j) - 1)

\* os.getcwd()
Cwd == <<"/", "w">>

\* os.path.join(os.getcwd(), name)
join_cwd(name) == Cwd \o <<"/">> \o name

DotH5P == <<".", "h", "5", "p">>
DotZip == <<".", "z", "i", "p">>
AnswerTxt == <<"_", "a", "n", "s", "w", "e", "r", ".", "t", "x", "t">>
ExtractedAnswersTxt ==
    <<"e", "x", "t", "r", "a", "c", "t", "e", "d", "_", "a", "n", "s", "w", "e", "r", "s",
      ".", "t", "x", "t">>

\* line 333
NamedAfterInput(input) ==
    /\ input # None /\ input # <<>>
    /\ endswith(lower(input), DotH5P)

\* lines 331-338, output_path being None
OutputPath(input) ==
    IF NamedAfterInput(input)
    THEN join_cwd(splitext_root(basename(input)) \o AnswerTxt)
    ELSE join_cwd(ExtractedAnswersTxt)

(***************************************************************************)
(* SpecRun: extract_answers, extract_answers.py 16-61, statement by        *)
(* statement. The file system and the parser answer each call with any of  *)
(* the outcomes it has; error is None or <<the stage, the exception>>.     *)
(***************************************************************************)
TempDir == <<"/", "t", "m", "p", "/", "x">>
ContentJson ==
    <<"/", "c", "o", "n", "t", "e", "n", "t", ".", "j", "s", "o", "n">>

InputDirs == { <<>>, <<"d", "/">>, <<"d", ".", "e", "/">> }
InputStems == { <<"q">>, <<"c", ".", "v">> }
InputExts ==
    { DotH5P, <<".", "H", "5", "P">>, DotZip, <<".", "Z", "i", "p">>,
      <<".", "j", "s", "o", "n">>, <<>> }
InputPaths == {d \o s \o e : d \in InputDirs, s \in InputStems, e \in InputExts}

InitRun ==
    /\ pc = "start"
    /\ file_path \in InputPaths
    /\ original_input = None
    /\ temp_dir = None
    /\ fs_temp = {}
    /\ written = {}
    /\ error = None
    /\ IdleClean /\ IdleCall /\ IdleLoop /\ IdleReport

\* the statement at stage raises exception: control goes to its except clause
Raise(stage, exception) ==
    /\ error' = <<stage, exception>>
    /\ pc' = IF exception = "FileNotFoundError" THEN "except_fnf"
             ELSE "except_exception"

\* line 27
IsArchive(path) ==
    endswith(lower(path), DotH5P) \/ endswith(lower(path), DotZip)

\* lines 23-27
Start ==
    /\ pc = "start"
    /\ original_input' = file_path
    /\ pc' = IF IsArchive(file_path) THEN "mkdtemp" ELSE "load"
    /\ UNCHANGED <<file_path, temp_dir, fs_temp, written, error>>
    /\ UNCHANGED <<varsClean, varsCall, varsLoop, varsReport>>

\* line 29
MakeTempDir ==
    /\ pc = "mkdtemp"
    /\ \/ /\ temp_dir' = TempDir
          /\ fs_temp' = fs_temp \cup {TempDir}
          /\ pc' = "unzip"
          /\ UNCHANGED error
       \/ /\ Raise("mkdtemp", "OSError")
          /\ UNCHANGED <<temp_dir, fs_temp>>
    /\ UNCHANGED <<file_path, original_input, written>>
    /\ UNCHANGED <<varsClean, varsCall, varsLoop, varsReport>>

\* lines 30-31
Unzip ==
    /\ pc = "unzip"
    /\ \/ pc' = "walk" /\ UNCHANGED error
       \/ \E e \in {"FileNotFoundError", "BadZipFile", "OSError"} : Raise("unzip", e)
    /\ UNCHANGED <<file_path, original_input, temp_dir, fs_temp, written>>
    /\ UNCHANGED <<varsClean, varsCall, varsLoop, varsReport>>

\* lines 32-39
Walk ==
    /\ pc = "walk"
    /\ \/ /\ file_path' = temp_dir \o ContentJson
          /\ pc' = "load"
          /\ UNCHANGED error
       \/ /\ Raise("walk", "FileNotFoundError")
          /\ UNCHANGED file_path
    /\ UNCHANGED <<original_input, temp_dir, fs_temp, written>>
    /\ UNCHANGED <<varsClean, varsCall, varsLoop, varsReport>>

\* line 42: H5PAnswerExtractor(file_path), lines 16-39 of h5p_answer_extractor.py
Load ==
    /\ pc = "load"
    /\ \/ pc' = "display" /\ UNCHANGED error
       \/ \E e \in {"FileNotFoundError", "ValueError"} : Raise("load", e)
    /\ UNCHANGED <<file_path, original_input, temp_dir, fs_temp, written>>
    /\ UNCHANGED <<varsClean, varsCall, varsLoop, varsReport>>

\* line 45
Display ==
    /\ pc = "display"
    /\ \/ pc' = "save" /\ UNCHANGED error
       \/ \E e \in {"TypeError", "KeyError"} : Raise("display", e)
    /\ UNCHANGED <<file_path, original_input, temp_dir, fs_temp, written>>
    /\ UNCHANGED <<varsClean, varsCall, varsLoop, varsReport>>

\* lines 48-50
Save ==
    /\ pc = "save"
    /\ \/ /\ written' = written \cup {OutputPath(original_input)}
          /\ pc' = "finally"
          /\ UNCHANGED error
       \/ /\ \E e \in {"TypeError", "OSError"} : Raise("save", e)
          /\ UNCHANGED written
    /\ UNCHANGED <<file_path, original_input, temp_dir, fs_temp>>
    /\ UNCHANGED <<varsClean, varsCall, varsLoop, varsReport>>

\* lines 52-54
ExceptFileNotFound ==
    /\ pc = "except_fnf"
    /\ pc' = "finally"
    /\ UNCHANGED <<varsRun, varsClean, varsCall, varsLoop, varsReport>>

\* lines 56-57
ExceptException ==
    /\ pc = "except_exception"
    /\ pc' = "finally"
    /\ UNCHANGED <<varsRun, varsClean, varsCall, varsLoop, varsReport>>

\* variant: the finally clause is missing
FinallyWithoutRmtree ==
    /\ pc = "finally"
    /\ pc' = "done"
    /\ UNCHANGED <<varsRun, varsClean, varsCall, varsLoop, varsReport>>

\* lines 58-61
Finally ==
    /\ pc = "finally"
    /\ fs_temp' = IF temp_dir # None /\ temp_dir \in fs_temp
                  THEN fs_temp \ {temp_dir}
                  ELSE fs_temp
    /\ pc' = "done"
    /\ UNCHANGED <<file_path, original_input, temp_dir, written, error>>
    /\ UNCHANGED <<varsClean, varsCall, varsLoop, varsReport>>

NextRun ==
    \/ Start \/ MakeTempDir \/ Unzip \/ Walk \/ Load \/ Display \/ Save
    \/ ExceptFileNotFound \/ ExceptException \/ Finally

SpecRun == InitRun /\ [][NextRun]_vars

\* C4: when the run has ended, on whichever path, no temporary directory is
\* left on disk; and while one is on disk the run is still under way with
\* temp_dir naming it.
C4_TempDirRemoved ==
    /\ pc = "done" => fs_temp = {}
    /\ fs_temp # {} => temp_dir # None /\ fs_temp = {temp_dir}

C4_Witness ==
    /\ pc = "done"
    /\ temp_dir = TempDir
    /\ error = <<"save", "OSError">>
    /\ fs_temp = {}

\* the name C5 gives the report of an archive: the archive's file name
\* without its four-character suffix, then _answer.txt
C5_ArchiveReport(path) ==
    LET name == basename(path)
    IN  SubSeq(name, 1, Len(name) - 4) \o AnswerTxt

\* C5: after a successful run the report is at <archive_basename>_answer.txt
\* in the working directory when the input was unpacked as an archive, and at
\* extracted_answers.txt otherwise.
C5_ReportNamedAfterArchive ==
    pc = "done" /\ error = None =>
        written = {join_cwd(IF temp_dir # None
                            THEN C5_ArchiveReport(original_input)
                            ELSE ExtractedAnswersTxt)}

(***************************************************************************)
(* The report: display_answers, h5p_answer_extractor.py 261-325, and       *)
(* save_answers_to_file, 340-404.                                          *)
(*                                                                         *)
(* Standard output and the report file are the text sent to them: a        *)
(* sequence of characters and of whole literals. print(x) sends x and a    *)
(* line break, f.write(x) sends x; every line break is an element of its   *)
(* own, whatever the literal it was written in. The literals are written without their  *)
(* diacritics and symbols: "v DUNG" is the check mark and DUNG.            *)
(***************************************************************************)
NL == <<"\n">>

\* c * count
Times(c, count) == [i \in 1..count |-> c]

\* str(i) and f"{value}"
str(i) == <<ToString(i)>>
Format(value) == IF value = None THEN <<"N", "o", "n", "e">> ELSE value

\* sep.join(list)
RECURSIVE Join(_, _)
Join(sep, list) ==
    IF list = <<>> THEN <<>>
    ELSE IF Len(list) = 1 THEN list[1]
    ELSE list[1] \o sep \o Join(sep, Tail(list))

\* the concatenation of Line(list[k], k) for k = from .. Len(list)
RECURSIVE Lines(_, _, _)
Lines(Line(_, _), list, from) ==
    IF from > Len(list) THEN <<>>
    ELSE Line(list[from], from) \o Lines(Line, list, from + 1)

Status(option) == IF option.is_correct THEN <<"v DUNG">> ELSE <<"x SAI">>

\* line 306 and line 383: zones rendered 1-based
ZoneNumbers(zones) == [k \in 1..Len(zones) |-> str(zones[k] + 1)]

NoAnswer == <<"Khong xac dinh duoc dap an">>

(* display_answers *)
PrintOption(option, k) ==
    <<"  ">> \o option.option \o <<". ">> \o option.text \o <<" [">>
    \o Status(option) \o <<"]">> \o NL

PrintNumbered(item, k) == <<"  ">> \o str(k) \o <<". ">> \o item \o NL

PrintMatch(match, k) ==
    <<"  '">> \o match.item \o <<"' -> Vung ">>
    \o Join(<<", ">>, ZoneNumbers(match.zones)) \o NL

\* lines 279-323
PrintFields(answer) ==
    CASE answer.type = <<"Multiple Choice">> ->
             <<"Cau hoi: ">> \o answer.question \o NL
             \o <<"\n", "Cac lua chon:">> \o NL
             \o Lines(PrintOption, answer.answers, 1)
             \o <<"\n", "DAP AN DUNG: ">> \o Format(answer.correct_answer) \o NL
      [] answer.type = <<"Drag and Drop">> ->
             <<"Loai: Keo tha">> \o NL
             \o <<"So items de keo: ">> \o str(Len(answer.drag_items)) \o NL
             \o <<"So vung tha: ">> \o str(Len(answer.drop_areas)) \o NL
             \o (IF answer.drag_items # <<>>
                 THEN <<"\n", "Cac item de keo:">> \o NL
                      \o Lines(PrintNumbered, answer.drag_items, 1)
                 ELSE <<>>)
             \o (IF answer.drop_areas # <<>>
                 THEN <<"\n", "Cac vung tha:">> \o NL
                      \o Lines(PrintNumbered, answer.drop_areas, 1)
                 ELSE <<>>)
             \o (IF answer.correct_matches # <<>>
                 THEN <<"\n", "Cac ket noi dung:">> \o NL
                      \o Lines(PrintMatch, answer.correct_matches, 1)
                 ELSE <<>>)
      [] answer.type = <<"True/False">> ->
             <<"Cau hoi: ">> \o answer.question \o NL
             \o <<"DAP AN DUNG: ">> \o Format(answer.correct_answer) \o NL
      [] answer.type = <<"Fill in the Blanks">> ->
             <<"Cau hoi: ">> \o answer.question \o NL
             \o <<"DAP AN: ">>
             \o (IF answer.answers # <<>> THEN Join(<<", ">>, answer.answers)
                 ELSE NoAnswer) \o NL
      [] answer.type = <<"Drag Text">> ->
             <<"Cau hoi: ">> \o answer.question \o NL
             \o <<"Doan van: ">> \o answer.text_field \o NL
             \o <<"DAP AN: ">>
             \o (IF answer.answers # <<>> THEN Join(<<", ">>, answer.answers)
                 ELSE NoAnswer) \o NL
      [] OTHER -> <<>>

\* lines 273-325
PrintAnswer(answer, k) ==
    <<"\n", "CAU HOI ">> \o str(answer.question_number) \o NL
    \o <<"Loai: ">> \o answer.type \o NL
    \o <<"Thoi gian: ">> \o answer.time_range \o NL
    \o <<"ID: ">> \o answer.subcontent_id \o NL
    \o Times("-", 50) \o NL
    \o PrintFields(answer)
    \o <<"\n">> \o Times("=", 50) \o NL

\* lines 265-325: what display_answers prints for the records of list
Printed(path, list) ==
    Times("=", 80) \o NL
    \o <<"H5P ANSWER EXTRACTOR - TRICH XUAT DAP AN">> \o NL
    \o Times("=", 80) \o NL
    \o <<"File: ">> \o path \o NL
    \o <<"Tong so cau hoi: ">> \o str(Len(list)) \o NL
    \o Times("=", 80) \o NL
    \o Lines(PrintAnswer, list, 1)

(* save_answers_to_file *)
WriteOption(option, k) ==
    <<"  ">> \o option.option \o <<". ">> \o option.text \o <<" [">>
    \o Status(option) \o <<"]", "\n">>

WriteNumbered(item, k) == <<"  ">> \o str(k) \o <<". ">> \o item \o <<"\n">>

WriteMatch(match, k) ==
    <<"  '">> \o match.item \o <<"' -> Vung ">>
    \o Join(<<", ">>, ZoneNumbers(match.zones)) \o <<"\n">>

\* lines 356-400
WriteFields(answer) ==
    CASE answer.type = <<"Multiple Choice">> ->
             <<"Cau hoi: ">> \o answer.question \o <<"\n">>
             \o <<"\n", "Cac lua chon:", "\n">>
             \o Lines(WriteOption, answer.answers, 1)
             \o <<"\n", "DAP AN DUNG: ">> \o Format(answer.correct_answer) \o <<"\n">>
      [] answer.type = <<"Drag and Drop">> ->
             <<"Loai: Keo tha", "\n">>
             \o <<"So items de keo: ">> \o str(Len(answer.drag_items)) \o <<"\n">>
             \o <<"So vung tha: ">> \o str(Len(answer.drop_areas)) \o <<"\n">>
             \o (IF answer.drag_items # <<>>
                 THEN <<"\n", "Cac item de keo:", "\n">>
                      \o Lines(WriteNumbered, answer.drag_items, 1)
                 ELSE <<>>)
             \o (IF answer.drop_areas # <<>>
                 THEN <<"\n", "Cac vung tha:", "\n">>
                      \o Lines(WriteNumbered, answer.drop_areas, 1)
                 ELSE <<>>)
             \o (IF answer.correct_matches # <<>>
                 THEN <<"\n", "Cac ket noi dung:", "\n">>
                      \o Lines(WriteMatch, answer.correct_matches, 1)
                 ELSE <<>>)
      [] answer.type = <<"True/False">> ->
             <<"Cau hoi: ">> \o answer.question \o <<"\n">>
             \o <<"DAP AN DUNG: ">> \o Format(answer.correct_answer) \o <<"\n">>
      [] answer.type = <<"Fill in the Blanks">> ->
             <<"Cau hoi: ">> \o answer.question \o <<"\n">>
             \o <<"DAP AN: ">>
             \o (IF answer.answers # <<>> THEN Join(<<", ">>, answer.answers)
                 ELSE NoAnswer) \o <<"\n">>
      [] answer.type = <<"Drag Text">> ->
             <<"Cau hoi: ">> \o answer.question \o <<"\n">>
             \o <<"Doan van: ">> \o answer.text_field \o <<"\n">>
             \o <<"DAP AN: ">>
             \o (IF answer.answers # <<>> THEN Join(<<", ">>, answer.answers)
                 ELSE NoAnswer) \o <<"\n">>
      [] OTHER -> <<>>

\* lines 350-402
WriteAnswer(answer, k) ==
    <<"\n", "CAU HOI ">> \o str(answer.question_number) \o <<"\n">>
    \o <<"Loai: ">> \o answer.type \o <<"\n">>
    \o <<"Thoi gian: ">> \o answer.time_range \o <<"\n">>
    \o <<"ID: ">> \o answer.subcontent_id \o <<"\n">>
    \o Times("-", 50) \o <<"\n">>
    \o WriteFields(answer)
    \o <<"\n">> \o Times("=", 50) \o <<"\n">>

\* lines 343-402: what save_answers_to_file writes for the records of list
Written(path, list) ==
    <<"H5P ANSWER EXTRACTOR - TRICH XUAT DAP AN", "\n">>
    \o Times("=", 80) \o <<"\n">>
    \o <<"File: ">> \o path \o <<"\n">>
    \o <<"Tong so cau hoi: ">> \o str(Len(list)) \o <<"\n">>
    \o Times("=", 80) \o <<"\n">>
    \o Lines(WriteAnswer, list, 1)

\* line 404
SavedMessage(path) == <<"\n", "Da luu dap an vao file: ">> \o path \o NL

(***************************************************************************)
(* SpecReport: display_answers, then save_answers_to_file, as both entry   *)
(* points call them, on every list of at most MaxRendered interactions of  *)
(* SampleInteractions.                                                     *)
(***************************************************************************)
MaxRendered == 2      \* interactions of a content.json that is reported

ReportInput == <<"c", ".", "j", "s", "o", "n">>

InitReport ==
    /\ pc = "display"
    /\ interactions \in SeqsUpTo(SampleInteractions, MaxRendered)
    /\ pos = 0 /\ answers = Unused /\ question_number = 0
    /\ file_path = ReportInput
    /\ original_input = ReportInput
    /\ temp_dir = None
    /\ fs_temp = {}
    /\ written = {}
    /\ error = None
    /\ console = <<>>
    /\ file_out = None
    /\ IdleClean /\ IdleCall

\* lines 265-325 once extract_all_answers (line 263) has ended in state
DisplayOf(state) ==
    IF state.raised # None
    THEN /\ error' = <<"display">> \o state.raised
         /\ pc' = "raised"
         /\ UNCHANGED console
    ELSE /\ console' = console \o Printed(file_path, state.answers)
         /\ pc' = "save"
         /\ UNCHANGED error

DisplayAnswers ==
    /\ pc = "display"
    /\ DisplayOf(extract_all_answers(interactions))
    /\ UNCHANGED <<file_out, file_path, original_input, temp_dir, fs_temp, written>>
    /\ UNCHANGED <<varsClean, varsCall, varsLoop>>

\* lines 342-404 once extract_all_answers (line 340) has ended in state
SaveOf(state, output_path) ==
    /\ file_out' = Written(file_path, state.answers)
    /\ written' = written \cup {output_path}
    /\ console' = console \o SavedMessage(output_path)
    /\ pc' = "saved"

SaveAnswersToFile ==
    /\ pc = "save"
    /\ SaveOf(extract_all_answers(interactions), OutputPath(original_input))
    /\ UNCHANGED <<file_path, original_input, temp_dir, fs_temp, error>>
    /\ UNCHANGED <<varsClean, varsCall, varsLoop>>

NextReport == DisplayAnswers \/ SaveAnswersToFile

SpecReport == InitReport /\ [][NextReport]_vars

\* what display_answers printed: standard output without the message of
\* line 404 that save_answers_to_file adds
C9_Displayed ==
    SubSeq(console, 1,
           Len(console) - Len(SavedMessage(OutputPath(original_input))))

\* C9: the text display_answers prints equals the text save_answers_to_file
\* writes, header and records.
C9_SameRendering == pc = "saved" => C9_Displayed = file_out

\* what does hold: the file lacks only the first line of the console
\* rendering, the separator of line 265
C9_SameButFirstLine ==
    pc = "saved" => C9_Displayed = Times("=", 80) \o NL \o file_out


(***************************************************************************)
(* The two entry points and the files they write: main,                    *)
(* h5p_answer_extractor.py 407-428, statement by statement, next to        *)
(* extract_answers. written holds the paths opened for writing, as given   *)
(* to open.                                                                *)
(***************************************************************************)
\* open(path): a relative path names a file of the working directory
resolve(path) ==
    IF path # <<>> /\ path[1] = "/" THEN path ELSE join_cwd(path)

\* line 415, and line 88 of extract_answers.py
DefaultInput == <<"c", "o", "n", "t", "e", "n", "t", ".", "j", "s", "o", "n">>

\* sys.argv[0]
Script == <<"h5p_answer_extractor.py">>

\* the paths given to an entry point
EntryPaths ==
    InputPaths \cup {DefaultInput, ExtractedAnswersTxt,
                     join_cwd(ExtractedAnswersTxt), <<"d", "/">> \o DefaultInput}

\* sys.argv: the script, then at most one path
Argvs == {<<Script>>} \cup {<<Script, path>> : path \in EntryPaths}

\* lines 331-338: the path save_answers_to_file(output_path, original_input)
\* opens
SavePath(output_path, input) ==
    IF output_path = None THEN OutputPath(input) ELSE output_path

InitEntry ==
    /\ \/ pc = "start" /\ file_path \in EntryPaths
       \/ pc = "main" /\ file_path = None
    /\ original_input = None
    /\ temp_dir = None
    /\ fs_temp = {}
    /\ written = {}
    /\ error = None
    /\ IdleClean /\ IdleCall /\ IdleLoop /\ IdleReport

\* main: the statement at stage raises, control goes to line 426
MainRaise(stage, exception) ==
    /\ error' = <<stage, exception>>
    /\ pc' = "main_except"

\* lines 411-415
MainArgs ==
    /\ pc = "main"
    /\ \E sys_argv \in Argvs :
          file_path' = IF Len(sys_argv) > 1 THEN sys_argv[2] ELSE DefaultInput
    /\ pc' = "main_load"
    /\ UNCHANGED <<original_input, temp_dir, fs_temp, written, error>>
    /\ UNCHANGED <<varsClean, varsCall, varsLoop, varsReport>>

\* line 418: H5PAnswerExtractor(file_path), lines 16-39
MainLoad ==
    /\ pc = "main_load"
    /\ \/ pc' = "main_display" /\ UNCHANGED error
       \/ \E e \in {"FileNotFoundError", "ValueError"} : MainRaise("load", e)
    /\ UNCHANGED <<file_path, original_input, temp_dir, fs_temp, written>>
    /\ UNCHANGED <<varsClean, varsCall, varsLoop, varsReport>>

\* line 421
MainDisplay ==
    /\ pc = "main_display"
    /\ \/ pc' = "main_save" /\ UNCHANGED error
       \/ \E e \in {"TypeError", "KeyError"} : MainRaise("display", e)
    /\ UNCHANGED <<file_path, original_input, temp_dir, fs_temp, written>>
    /\ UNCHANGED <<varsClean, varsCall, varsLoop, varsReport>>

\* line 424: save_answers_to_file(file_path), the argument being output_path
\* and original_input being left at None
MainSave ==
    /\ pc = "main_save"
    /\ \/ /\ written' = written \cup {SavePath(file_path, None)}
          /\ pc' = "main_done"
          /\ UNCHANGED error
       \/ /\ \E e \in {"TypeError", "OSError"} : MainRaise("save", e)
          /\ UNCHANGED written
    /\ UNCHANGED <<file_path, original_input, temp_dir, fs_temp>>
    /\ UNCHANGED <<varsClean, varsCall, varsLoop, varsReport>>

\* lines 426-428
MainExcept ==
    /\ pc = "main_except"
    /\ pc' = "main_exit"
    /\ UNCHANGED <<varsRun, varsClean, varsCall, varsLoop, varsReport>>

NextMain == MainArgs \/ MainLoad \/ MainDisplay \/ MainSave \/ MainExcept

NextEntry == NextRun \/ NextMain

SpecEntry == InitEntry /\ [][NextEntry]_vars

\* the path the run was given
C11_Input == IF original_input # None THEN original_input ELSE file_path

\* the file names C11 allows for the report
C11_ReportName(path) ==
    \/ basename(path) = ExtractedAnswersTxt
    \/ endswith(basename(path), AnswerTxt)

\* C11: no run of either entry point opens its input file for writing, and
\* every file written is a report file, <basename>_answer.txt or
\* extracted_answers.txt, other than the input.
C11_InputNotWritten ==
    \A path \in written :
        /\ resolve(path) # resolve(C11_Input)
        /\ C11_ReportName(path)

\* C11, extract_answers alone: the input is written only when it is itself
\* the file extracted_answers.txt of the working directory
C11_RunWritesInputOnlyAsReport ==
    pc \in {"start", "mkdtemp", "unzip", "walk", "load", "display", "save",
            "except_fnf", "except_exception", "finally", "done"} =>
        \A path \in written :
            /\ C11_ReportName(path)
            /\ resolve(path) = resolve(C11_Input) =>
                  resolve(C11_Input) = join_cwd(ExtractedAnswersTxt)
====
